---- MODULE Spec2Model ----
(***************************************************************************)
(* Model of the PDF audit front end (streamlit_app.py, datamodels.py):     *)
(* extraction of numbered questions from the document text, and the loop   *)
(* of main() that sends every question to the audit service and collects   *)
(* the outcomes in all_responses.                                          *)
(*                                                                         *)
(* A text is a sequence of one-character strings.                          *)
(***************************************************************************)
EXTENDS Integers, Sequences, FiniteSets, TLC

VARIABLES
    pc,                  \* position of the script run of main()
    uploaded_file,       \* the file given to st.file_uploader
    top_k,               \* value of the st.slider
    text_content,        \* main(): text_content
    matches,             \* extract_questions(): matches, with their positions
    questions,           \* main(): questions (list of ResponseItem)
    formatted_questions, \* main(): formatted_questions
    all_responses,       \* main(): all_responses
    i,                   \* main(): the variable i (bound by both loops)
    pos,                 \* items the outer enumerate() has handed out
    status,              \* last message written to status_area
    st_errors,           \* messages shown with st.error in this run
    sent,                \* payloads posted to {API_URL}/audit_one, in order
    inflight,            \* payloads posted and not yet answered
    returned,            \* return values of call_api_one, in order
    outcomes             \* what each POST came to, in order

vars == <<pc, uploaded_file, top_k, text_content, matches, questions, formatted_questions,
          all_responses, i, pos, status, st_errors, sent, inflight, returned,
          outcomes>>

-----------------------------------------------------------------------------
(* Bounds of the model *)

\* most pieces in a text drawn by the extraction specification
MaxLen == 6

\* most numbered items in a document of the audit specification
MaxItems == 2

-----------------------------------------------------------------------------
(* Characters *)

Digits == {"0", "1", "2", "3", "4", "5", "6", "7", "8", "9"}

\* the characters str.split() and the regex class \s treat as whitespace
Whitespace == {" ", "\n", "\t", "\r", "\f"}

\* the pieces the drawn texts are made of: a digit, a digit with a period, a
\* space, a newline, a letter and a question mark
Pieces == {<<"7">>, <<"7", ".">>, <<" ">>, <<"\n">>, <<"a">>, <<"?">>}

DigitChars == <<"0", "1", "2", "3", "4", "5", "6", "7", "8", "9">>

-----------------------------------------------------------------------------
(* ResponseItem (datamodels.py) *)

\* ResponseItem.top_k: Optional[int] = 3
DefaultTopK == 3

ResponseItem(id, requirement) ==
    [id |-> id, requirement |-> requirement, top_k |-> DefaultTopK]

-----------------------------------------------------------------------------
(* extract_questions: re.findall(r"\d+\.\s*(.+?\?)", text, flags=re.DOTALL) *)

\* \d+ : the greedy run of digits that starts at p
RECURSIVE DigitRun(_, _)
DigitRun(text, p) ==
    IF p <= Len(text) /\ text[p] \in Digits THEN 1 + DigitRun(text, p + 1) ELSE 0

\* \s* : the greedy run of whitespace that starts at q
RECURSIVE SpaceRun(_, _)
SpaceRun(text, q) ==
    IF q <= Len(text) /\ text[q] \in Whitespace THEN 1 + SpaceRun(text, q + 1) ELSE 0

\* position of the first "?" at or after from, 0 when there is none
RECURSIVE FirstQuestionMark(_, _)
FirstQuestionMark(text, from) ==
    IF from > Len(text) THEN 0
    ELSE IF text[from] = "?" THEN from
    ELSE FirstQuestionMark(text, from + 1)

NoMatch == [found |-> FALSE, start |-> 0, cap |-> 0, end |-> 0]

\* the same search when "." does not match a newline (no re.DOTALL)
RECURSIVE FirstQuestionMarkInLine(_, _)
FirstQuestionMarkInLine(text, from) ==
    IF from > Len(text) \/ text[from] = "\n" THEN 0
    ELSE IF text[from] = "?" THEN from
    ELSE FirstQuestionMarkInLine(text, from + 1)

\* the group without re.DOTALL
RECURSIVE LazyGroupInLine(_, _, _, _)
LazyGroupInLine(text, p, q, m) ==
    LET s == q + m
        j == IF s <= Len(text) /\ text[s] # "\n"
             THEN FirstQuestionMarkInLine(text, s + 1) ELSE 0
    IN  IF j # 0 THEN [found |-> TRUE, start |-> p, cap |-> s, end |-> j]
        ELSE IF m = 0 THEN NoMatch
        ELSE LazyGroupInLine(text, p, q, m - 1)

\* (.+?\?) tried with \s* holding m characters, then with fewer (backtracking):
\* the lazy .+? takes at least one character, up to the first "?" after it
RECURSIVE LazyGroup(_, _, _, _)
LazyGroup(text, p, q, m) ==
    LET s == q + m
        j == FirstQuestionMark(text, s + 1)
    IN  IF j # 0 THEN [found |-> TRUE, start |-> p, cap |-> s, end |-> j]
        ELSE IF m = 0 THEN NoMatch
        ELSE LazyGroup(text, p, q, m - 1)

\* the match of the pattern that starts at p: its start, and the first and last
\* position of group 1
MatchAt(text, p) ==
    LET d == DigitRun(text, p)
        dot == p + d
    IN  IF d = 0 \/ dot > Len(text) \/ text[dot] # "." THEN NoMatch
        ELSE LazyGroup(text, p, dot + 1, SpaceRun(text, dot + 1))

\* re.findall: the non-overlapping matches, scanning from the left
RECURSIVE FindAllFrom(_, _)
FindAllFrom(text, p) ==
    IF p > Len(text) THEN <<>>
    ELSE LET mt == MatchAt(text, p)
         IN  IF mt.found THEN <<mt>> \o FindAllFrom(text, mt.end + 1)
             ELSE FindAllFrom(text, p + 1)

FindAll(text) == FindAllFrom(text, 1)

\* the text of group 1 of a match
Group(text, mt) == SubSeq(text, mt.cap, mt.end)

\* q.split(): the maximal runs of non-whitespace characters
RECURSIVE split(_)
split(q) ==
    IF q = <<>> THEN <<>>
    ELSE IF q[1] \in Whitespace THEN split(Tail(q))
    ELSE LET n == CHOOSE n \in 1..Len(q) :
                     /\ \A k \in 1..n : q[k] \notin Whitespace
                     /\ (n = Len(q) \/ q[n + 1] \in Whitespace)
         IN  <<SubSeq(q, 1, n)>> \o split(SubSeq(q, n + 1, Len(q)))

\* sep.join(words)
RECURSIVE join(_, _)
join(sep, words) ==
    IF words = <<>> THEN <<>>
    ELSE IF Len(words) = 1 THEN words[1]
    ELSE words[1] \o sep \o join(sep, Tail(words))

\* the captured text with its whitespace kept as written
cleaned_q_raw(q) == q

\* " ".join(q.split())
cleaned_q(q) == join(<<" ">>, split(q))

\* for i, q in enumerate(matches, start=1): responses.append(ResponseItem(...))
RECURSIVE EnumerateMatches(_, _, _)
EnumerateMatches(text, ms, k) ==
    IF k > Len(ms) THEN <<>>
    ELSE <<ResponseItem(k, cleaned_q(Group(text, ms[k])))>>
         \o EnumerateMatches(text, ms, k + 1)

\* the records built from the matches re.findall returned
ResponsesOf(text, ms) == EnumerateMatches(text, ms, 1)

extract_questions(text) == ResponsesOf(text, FindAll(text))

-----------------------------------------------------------------------------
(* format_questions *)

\* str(n) for n >= 0
RECURSIVE IntToStr(_)
IntToStr(n) ==
    IF n < 10 THEN <<DigitChars[n + 1]>>
    ELSE IntToStr(n \div 10) \o <<DigitChars[(n % 10) + 1]>>

\* f"{q.id}. {q.requirement}"
FormatOne(q) == IntToStr(q.id) \o <<".", " ">> \o q.requirement

format_questions(qs) ==
    join(<<"\n", "\n">>, [k \in 1..Len(qs) |-> FormatOne(qs[k])])

-----------------------------------------------------------------------------
(* Documents *)

RECURSIVE Concat(_)
Concat(parts) ==
    IF parts = <<>> THEN <<>> ELSE parts[1] \o Concat(Tail(parts))

\* st.file_uploader gave no file
NoFile == [present |-> FALSE, readable |-> FALSE, text |-> <<>>]

-----------------------------------------------------------------------------
(* Python and JSON values.  A decoded JSON body is described by its type, its  *)
(* size n (length of an object, array or string; the value of a number; 0 or  *)
(* 1 for a bool), what it holds under "response" (type and size) and under    *)
(* "response"."requirement" (type), and its "error" text.                     *)

PyNone ==
    [type |-> "None", n |-> 0, response |-> "absent", response_n |-> 0,
     requirement |-> "absent", error |-> <<>>]

\* {"response": {"requirement": "...", "is_met": ..., "citation": ...,
\*  "explanation": ..., "file_name": ...}}
Verdict ==
    [type |-> "object", n |-> 1, response |-> "object", response_n |-> 5,
     requirement |-> "string", error |-> <<>>]

\* an object without "response", such as {"detail": "..."}
Detail ==
    [type |-> "object", n |-> 1, response |-> "absent", response_n |-> 0,
     requirement |-> "absent", error |-> <<>>]

\* {}
EmptyObject ==
    [type |-> "object", n |-> 0, response |-> "absent", response_n |-> 0,
     requirement |-> "absent", error |-> <<>>]

\* {"response": {}}
ResponseEmpty ==
    [type |-> "object", n |-> 1, response |-> "object", response_n |-> 0,
     requirement |-> "absent", error |-> <<>>]

\* {"response": "..."}
ResponseText ==
    [type |-> "object", n |-> 1, response |-> "string", response_n |-> 1,
     requirement |-> "absent", error |-> <<>>]

\* {"response": {"requirement": null}}
RequirementNull ==
    [type |-> "object", n |-> 1, response |-> "object", response_n |-> 1,
     requirement |-> "null", error |-> <<>>]

\* a JSON array with one element
JsonArray ==
    [type |-> "array", n |-> 1, response |-> "absent", response_n |-> 0,
     requirement |-> "absent", error |-> <<>>]

\* the bodies the service may answer with; the body null decodes to None
Bodies ==
    {Verdict, Detail, EmptyObject, ResponseEmpty, ResponseText, RequirementNull,
     JsonArray, PyNone}

\* bool(v) of a value of the given type and size
TruthyOf(type, n) ==
    CASE type \in {"None", "null", "absent"} -> FALSE
      [] type \in {"object", "array", "string"} -> n > 0
      [] OTHER -> n # 0

\* the truth value of v, as in "if v:"
Truthy(v) == TruthyOf(v.type, v.n)

-----------------------------------------------------------------------------
(* extract_text_from_pdf *)

\* text.strip()
RECURSIVE lstrip(_)
lstrip(t) ==
    IF t # <<>> /\ t[1] \in Whitespace THEN lstrip(Tail(t)) ELSE t

RECURSIVE rstrip(_)
rstrip(t) ==
    IF t # <<>> /\ t[Len(t)] \in Whitespace THEN rstrip(SubSeq(t, 1, Len(t) - 1))
    ELSE t

strip(t) == rstrip(lstrip(t))

PdfError == "Error extracting text from PDF"

\* the text returned, and the message given to st.error
extract_text_from_pdf(pdf_file) ==
    IF pdf_file.readable
    THEN [text |-> strip(pdf_file.text), errors |-> {}]
    ELSE [text |-> <<>>, errors |-> {PdfError}]

-----------------------------------------------------------------------------
(* call_api_one *)

RequestFailed == "API request failed"
ParseFailed == "Failed to parse API response"

\* what the POST of one payload comes to: a transport failure, a 4xx or 5xx
\* status, a 2xx body that is not JSON, or a 2xx body that decodes to body.
\* exc is the class of the exception response.json() raises on a body that is
\* not JSON: requests.exceptions.JSONDecodeError (a RequestException) or the
\* json.JSONDecodeError of older releases of requests.
Outcome(kind, exc, body) == [kind |-> kind, exc |-> exc, body |-> body]

Outcomes ==
    {Outcome("transport", "RequestException", PyNone),
     Outcome("http_error", "RequestException", PyNone),
     Outcome("undecodable", "RequestException", PyNone),
     Outcome("undecodable", "JSONDecodeError", PyNone)}
    \cup {Outcome("json", "none", b) : b \in Bodies}

FailureKinds == {"transport", "http_error", "undecodable"}

\* the payload posted for the record req, with the default top_k in place of
\* the record's
PayloadDefaultTopK(req) ==
    [id |-> req.id, requirement |-> req.requirement, top_k |-> DefaultTopK]

\* payload = {"id": req.id, "requirement": req.requirement, "top_k": req.top_k}
Payload(req) ==
    [id |-> req.id, requirement |-> req.requirement, top_k |-> req.top_k]

\* a POST that is made again after it was made
PostTwice(log, payload) == log \o <<payload, payload>>

\* requests.post(f"{API_URL}/audit_one", json=payload, headers=headers): the
\* log of the payloads posted
Post(log, payload) == Append(log, payload)

\* the value call_api_one returns for an outcome, and its st.error message
call_api_one(outcome) ==
    CASE outcome.kind = "json" -> [value |-> outcome.body, errors |-> {}]
      [] outcome.kind \in {"transport", "http_error"} ->
            [value |-> PyNone, errors |-> {RequestFailed}]
      [] OTHER ->
            [value |-> PyNone,
             errors |-> IF outcome.exc = "RequestException"
                        THEN {RequestFailed} ELSE {ParseFailed}]

-----------------------------------------------------------------------------
(* main *)

\* slider: min_value=1, max_value=10, value=3
SliderMin == 1
SliderMax == 10
SliderValue == 3

\* the slider positions the model tries
SliderChoices == {SliderMin, SliderValue, SliderMax}

\* the placeholder numbered from 0
PlaceholderZeroBased(k) ==
    [type |-> "object", n |-> 1, response |-> "absent", response_n |-> 0,
     requirement |-> "absent", error |-> <<"Failed at question ", k - 1>>]

\* {"error": f"Failed at question {i}"}
Placeholder(k) ==
    [type |-> "object", n |-> 1, response |-> "absent", response_n |-> 0,
     requirement |-> "absent", error |-> <<"Failed at question ", k>>]

\* the append that leaves a failed question out
AppendOnlySuccess(responses, response, k) ==
    IF Truthy(response) THEN Append(responses, response) ELSE responses

\* if response: all_responses.append(response)
\* else: all_responses.append({"error": f"Failed at question {i}"})
AppendOutcome(responses, response, k) ==
    IF Truthy(response) THEN Append(responses, response)
    ELSE Append(responses, Placeholder(k))

NoStatus == [level |-> "none", text |-> "", k |-> 0]

\* the status_area message after the call for question k
StatusAfter(response, k) ==
    IF Truthy(response)
    THEN [level |-> "info", text |-> "Processed", k |-> k]
    ELSE [level |-> "warning", text |-> "Failed at Question", k |-> k]

AllProcessed ==
    [level |-> "success", text |-> "All questions processed successfully!", k |-> 0]

NoTextError == "No text content could be extracted from the PDF."

\* a guard that lets every document through
ShouldProcessAlways(formatted) == TRUE

\* if formatted_questions:
ShouldProcess(formatted) == formatted # <<>>

\* rendering one entry of all_responses raises: res.get("response") on a value
\* that is no dict, res.get('requirement', '') on a "response" that is no dict,
\* or the slice [:100] of a requirement that is neither text nor a list
RenderRaises(res) ==
    \/ res.type # "object"
    \/ /\ TruthyOf(res.response, res.response_n)
       /\ \/ res.response # "object"
          \/ res.requirement \notin {"absent", "string", "array"}

\* the entries of all_responses whose rendering raises
RaisingEntries(responses) ==
    {k \in 1..Len(responses) : RenderRaises(responses[k])}

\* the numbered items the documents of the model are made of
DocItems ==
    {<<"7", ".", "a", "?">>,
     <<"1", "2", ".", " ", "b", "\n", " ", "b", "?", "\n">>,
     <<"7", ".", "a", " ">>}

Unreadable == [present |-> TRUE, readable |-> FALSE, text |-> <<>>]

Files ==
    {NoFile, Unreadable}
    \cup {[present |-> TRUE, readable |-> TRUE, text |-> Concat(parts)] :
            parts \in UNION {[1..n -> DocItems] : n \in 0..MaxItems}}

Init ==
    /\ pc = "ready"
    /\ uploaded_file \in Files
    /\ top_k \in SliderChoices
    /\ text_content = <<>>
    /\ matches = <<>>
    /\ questions = <<>>
    /\ formatted_questions = <<>>
    /\ all_responses = <<>>
    /\ i = 0
    /\ pos = 0
    /\ status = NoStatus
    /\ st_errors = {}
    /\ sent = <<>>
    /\ inflight = {}
    /\ returned = <<>>
    /\ outcomes = <<>>

\* the button "Extract Text and Process": lines 124-149, or 203 when there is
\* nothing to process
ClickExtract ==
    /\ pc = "ready"
    /\ uploaded_file.present
    /\ LET extracted == extract_text_from_pdf(uploaded_file)
       IN  /\ text_content' = extracted.text
           /\ matches' = FindAll(text_content')
           /\ questions' = ResponsesOf(text_content', matches')
           /\ formatted_questions' = format_questions(questions')
           /\ IF ShouldProcess(formatted_questions')
              THEN /\ all_responses' = <<>>
                   /\ status' = [level |-> "info", text |-> "Processing", k |-> 0]
                   /\ st_errors' = st_errors \cup extracted.errors
                   /\ pc' = "loop"
              ELSE /\ st_errors' = st_errors \cup extracted.errors \cup {NoTextError}
                   /\ pc' = "done"
                   /\ UNCHANGED <<all_responses, status>>
    /\ UNCHANGED <<uploaded_file, top_k, i, pos, sent, inflight, returned, outcomes>>

\* the head of the loop up to the POST of call_api_one: lines 152-161, 81-88
SendQuestion ==
    /\ pc = "loop"
    /\ pos < Len(questions)
    /\ pos' = pos + 1
    /\ i' = pos + 1
    /\ questions' = [questions EXCEPT ![pos + 1].top_k = top_k]
    /\ sent' = Post(sent, Payload(questions'[pos + 1]))
    /\ inflight' = inflight \cup {Payload(questions'[pos + 1])}
    /\ pc' = "call"
    /\ UNCHANGED <<uploaded_file, top_k, text_content, matches, formatted_questions,
                   all_responses, status, st_errors, returned, outcomes>>

\* the POST ends, call_api_one returns and main() appends: lines 88-99, 161-169
CallReturns(outcome) ==
    /\ pc = "call"
    /\ LET r == call_api_one(outcome)
       IN  /\ returned' = Append(returned, r.value)
           /\ st_errors' = st_errors \cup r.errors
           /\ all_responses' = AppendOutcome(all_responses, r.value, i)
           /\ status' = StatusAfter(r.value, i)
    /\ outcomes' = Append(outcomes, outcome)
    /\ inflight' = inflight \ {Payload(questions[i])}
    /\ pc' = "render"
    /\ UNCHANGED <<uploaded_file, top_k, text_content, matches, questions,
                   formatted_questions, i, pos, sent>>

\* the cards of all_responses are drawn again: lines 172-198.  The inner loop
\* binds i too; an exception of the rendering ends the script run.
RenderResponses ==
    /\ pc = "render"
    /\ IF RaisingEntries(all_responses) # {}
       THEN /\ i' = CHOOSE k \in RaisingEntries(all_responses) :
                        \A k2 \in RaisingEntries(all_responses) : k <= k2
            /\ pc' = "raised"
       ELSE /\ i' = Len(all_responses)
            /\ pc' = "loop"
    /\ UNCHANGED <<uploaded_file, top_k, text_content, matches, questions,
                   formatted_questions, all_responses, pos, status, st_errors,
                   sent, inflight, returned, outcomes>>

\* the loop is over: line 200
FinishLoop ==
    /\ pc = "loop"
    /\ pos = Len(questions)
    /\ status' = AllProcessed
    /\ pc' = "done"
    /\ UNCHANGED <<uploaded_file, top_k, text_content, matches, questions,
                   formatted_questions, all_responses, i, pos, st_errors, sent,
                   inflight, returned, outcomes>>

Next ==
    \/ ClickExtract
    \/ SendQuestion
    \/ \E outcome \in Outcomes : CallReturns(outcome)
    \/ RenderResponses
    \/ FinishLoop

Spec == Init /\ [][Next]_vars

-----------------------------------------------------------------------------
(* The extraction specification: extract_questions and format_questions on *)
(* every text of at most MaxLen pieces.                                    *)


InitExtract ==
    /\ pc = "text"
    /\ \E n \in 0..MaxLen : \E parts \in [1..n -> Pieces] :
          text_content = Concat(parts)
    /\ uploaded_file = NoFile
    /\ top_k = DefaultTopK
    /\ matches = <<>>
    /\ questions = <<>>
    /\ formatted_questions = <<>>
    /\ all_responses = <<>>
    /\ i = 0
    /\ pos = 0
    /\ status = NoStatus
    /\ st_errors = {}
    /\ sent = <<>>
    /\ inflight = {}
    /\ returned = <<>>
    /\ outcomes = <<>>

ExtractQuestions ==
    /\ pc = "text"
    /\ matches' = FindAll(text_content)
    /\ questions' = ResponsesOf(text_content, matches')
    /\ formatted_questions' = format_questions(questions')
    /\ pc' = "extracted"
    /\ UNCHANGED <<uploaded_file, top_k, text_content, all_responses, i, pos,
                   status, st_errors, sent, inflight, returned, outcomes>>

NextExtract == ExtractQuestions

SpecExtract == InitExtract /\ [][NextExtract]_vars

-----------------------------------------------------------------------------
(* Properties of extract_questions *)

StripWs(s) == SelectSeq(s, LAMBDA c : c \notin Whitespace)

IsInfix(a, b) ==
    \E k \in 0..(Len(b) - Len(a)) : SubSeq(b, k + 1, k + Len(a)) = a

\* a numbered question as the spec words it: a numeral, a period, and a
\* question mark after at least one further character
HasNumberedQuestion(text) ==
    \E p \in 1..Len(text) : \E j \in 1..Len(text) :
        /\ text[p] \in Digits
        /\ p + 1 <= Len(text)
        /\ text[p + 1] = "."
        /\ j >= p + 3
        /\ text[j] = "?"

\* a requirement is normalised: no whitespace at either end, and inside it only
\* single spaces
Normalised(r) ==
    /\ r # <<>>
    /\ r[1] \notin Whitespace
    /\ r[Len(r)] \notin Whitespace
    /\ \A k \in 1..Len(r) : r[k] \in Whitespace => r[k] = " "
    /\ \A k \in 1..(Len(r) - 1) : ~(r[k] = " " /\ r[k + 1] = " ")

\* C4: the records of extract_questions have the ids 1..n in match order,
\* whatever numerals the text wrote; every requirement is non-empty, trimmed,
\* has its whitespace runs collapsed to one space and ends with "?"; a text
\* without a numbered question gives the empty list.
C4_IdsDenseRequirementsNormalised ==
    pc = "extracted" =>
        /\ Len(questions) = Len(matches)
        /\ \A k \in 1..Len(questions) :
              /\ questions[k].id = k
              /\ Normalised(questions[k].requirement)
              /\ questions[k].requirement[Len(questions[k].requirement)] = "?"
              /\ StripWs(questions[k].requirement)
                   = StripWs(Group(text_content, matches[k]))
        /\ (questions = <<>>) <=> ~HasNumberedQuestion(text_content)

\* two questions were extracted from a text whose numerals are both 7
C4_Witness ==
    /\ pc = "extracted"
    /\ Len(questions) = 2
    /\ questions[2].id = 2

\* the positions where a numbered item starts: a numeral followed by a period
ItemStarts(text) ==
    {p \in 1..Len(text) :
        /\ text[p] \in Digits
        /\ (p = 1 \/ text[p - 1] \notin Digits)
        /\ p + DigitRun(text, p) <= Len(text)
        /\ text[p + DigitRun(text, p)] = "."}

\* the last position of the item that starts at p: it runs to the next item
ItemEnd(text, p) ==
    LET nxt == {r \in ItemStarts(text) : r > p}
    IN  IF nxt = {} THEN Len(text)
        ELSE (CHOOSE r \in nxt : \A r2 \in nxt : r <= r2) - 1

\* the item that starts at p has no question mark of its own
Unterminated(text, p) ==
    \A j \in p..ItemEnd(text, p) : text[j] # "?"

\* first position of the item's text, after its numeral, period and whitespace
ItemTextFrom(text, p) ==
    LET q == p + DigitRun(text, p) + 1 IN q + SpaceRun(text, q)

ItemText(text, p) == SubSeq(text, ItemTextFrom(text, p), ItemEnd(text, p))

MatchIndexes == 1..Len(matches)

\* C3 as the spec states it: a numbered item without a question mark before
\* the next numbered item is never matched, and its text is in no requirement.
C3_UnterminatedItemNeverMatched ==
    pc = "extracted" =>
        \A p \in ItemStarts(text_content) :
            Unterminated(text_content, p) =>
                \A k \in MatchIndexes :
                    LET mt == matches[k]
                    IN  mt.end < p \/ mt.start > ItemEnd(text_content, p)

\* C3 amended: a numbered item without a question mark before the next
\* numbered item gives no record that ends inside it; when a question mark
\* follows later in the text the item is matched together with what follows, up
\* to that question mark, and its text is part of that record's requirement;
\* only when no question mark follows at all is the item left unmatched.
C3_UnterminatedItemMergedWithNext ==
    pc = "extracted" =>
        \A p \in ItemStarts(text_content) :
            Unterminated(text_content, p) =>
                LET e == ItemEnd(text_content, p)
                    later == \E j \in (e + 1)..Len(text_content) :
                                 text_content[j] = "?"
                IN  /\ \A k \in MatchIndexes :
                          ~(matches[k].end <= e
                            /\ matches[k].end >= p)
                    /\ later =>
                          \E k \in MatchIndexes :
                              LET mt == matches[k]
                              IN  /\ mt.start <= p
                                  /\ mt.cap <= ItemTextFrom(text_content, p)
                                  /\ mt.end = FirstQuestionMark(text_content, e + 1)
                                  /\ k <= Len(questions)
                                  /\ IsInfix(StripWs(ItemText(text_content, p)),
                                             StripWs(questions[k].requirement))
                    /\ ~later =>
                          \A k \in MatchIndexes :
                              matches[k].end < p

\* an item without a question mark was merged with the question after it
C3_Witness ==
    /\ pc = "extracted"
    /\ \E p \in ItemStarts(text_content) :
          /\ Unterminated(text_content, p)
          /\ ItemText(text_content, p) # <<>>
          /\ ItemEnd(text_content, p) < Len(text_content)
          /\ Len(questions) = 1
          /\ IsInfix(ItemText(text_content, p), questions[1].requirement)

-----------------------------------------------------------------------------
(* Properties of the audit loop of main() *)

\* questions whose call has returned and whose outcome main() has appended
Processed == IF pc = "call" THEN pos - 1 ELSE pos

\* the entry main() stores for question k when call_api_one returned response
EntryFor(response, k) == IF Truthy(response) THEN response ELSE Placeholder(k)

IsPlaceholder(entry) == entry.error # <<>>

C1_InStep ==
    /\ Len(all_responses) = Processed
    /\ Len(returned) = Processed
    /\ Len(all_responses) <= Len(questions)
    /\ \A j \in 1..Len(all_responses) :
          /\ sent[j].id = questions[j].id
          /\ all_responses[j] = EntryFor(returned[j], j)
    /\ pc = "done" => Len(all_responses) = Len(questions)

C1_EntriesKept ==
    /\ Len(all_responses') >= Len(all_responses)
    /\ \A j \in 1..Len(all_responses) : all_responses'[j] = all_responses[j]

C2_NoExceptionEscapes ==
    pc # "raised"

\* C5: when the PDF cannot be read or its text has no numbered question, the
\* run posts nothing: the loop is skipped, and the error message is shown.
C5_NoCallWithoutRequirements ==
    (pc # "ready"
     /\ (~uploaded_file.readable \/ ~HasNumberedQuestion(uploaded_file.text)))
    => /\ sent = <<>>
       /\ inflight = {}
       /\ outcomes = <<>>
       /\ all_responses = <<>>
       /\ status = NoStatus
       /\ pc = "done"
       /\ NoTextError \in st_errors

\* a readable document with a numbered statement and no question was processed
C5_Witness ==
    /\ pc = "done"
    /\ uploaded_file.readable
    /\ ItemStarts(uploaded_file.text) # {}
    /\ questions = <<>>

\* C6 as the spec states it: the placeholder of a failed call carries the kind
\* of the error, so that slots of calls that failed in different ways differ
\* in more than the number of the question.
C6_FailureKindsDistinguishable ==
    \A j \in 1..Len(all_responses) : \A k \in 1..Len(all_responses) :
        (/\ outcomes[j].kind \in FailureKinds
         /\ outcomes[k].kind \in FailureKinds
         /\ outcomes[j].kind # outcomes[k].kind)
        => all_responses[j].error[1] # all_responses[k].error[1]

\* C6 amended: the slot of a failed call (transport failure, 4xx or 5xx status,
\* undecodable body) holds the placeholder {"error": "Failed at question k"},
\* which carries the number of the question and no error kind: it is the same
\* for the three kinds, which only the st.error message of call_api_one tells.
C6_PlaceholderCarriesQuestionNumberOnly ==
    \A j \in 1..Len(all_responses) :
        outcomes[j].kind \in FailureKinds =>
            /\ all_responses[j].type = "object"
            /\ all_responses[j].n = 1
            /\ all_responses[j].response = "absent"
            /\ all_responses[j].error = <<"Failed at question ", j>>
            /\ st_errors \cap {RequestFailed, ParseFailed} # {}

\* two calls of one run failed, one in transport and one with an error status
C6_Witness ==
    /\ Len(all_responses) = 2
    /\ outcomes[1].kind = "transport"
    /\ outcomes[2].kind = "http_error"

C8_PayloadCarriesAssigned ==
    /\ \A j \in 1..Len(sent) :
          /\ questions[j].top_k = top_k
          /\ sent[j] = [id |-> questions[j].id,
                        requirement |-> questions[j].requirement,
                        top_k |-> top_k]
    /\ \A j \in (Len(sent) + 1)..Len(questions) : questions[j].top_k = DefaultTopK

C8_TopKKeptAfterCall ==
    \A j \in 1..Len(sent) :
        /\ j <= Len(questions')
        /\ questions'[j].top_k = questions[j].top_k

\* C8: the payload posted for a record carries the record's id and requirement
\* and the top_k assigned to it from the slider; a record not yet assigned has
\* the default 3; the top_k of a record does not change once its call is made.
C8_PayloadCarriesAssignedTopK ==
    [](C8_PayloadCarriesAssigned) /\ [][C8_TopKKeptAfterCall]_vars

\* the first of two records was posted with the slider's 10, the second still
\* has the default
C8_Witness ==
    /\ pc = "call"
    /\ Len(sent) = 1
    /\ sent[1].top_k = SliderMax
    /\ Len(questions) = 2
    /\ questions[2].top_k = DefaultTopK

\* C9: a slot holds the placeholder only when the call did not complete; every
\* call that completes with a decodable JSON body has that body as its slot and
\* is reported as processed, whatever the body is.
C9_PlaceholderOnlyForFailedCalls ==
    \A j \in 1..Len(all_responses) :
        /\ IsPlaceholder(all_responses[j]) => outcomes[j].kind \in FailureKinds
        /\ outcomes[j].kind = "json" =>
              /\ all_responses[j] = outcomes[j].body
              /\ (j = Len(all_responses) /\ pc = "render") => status.level = "info"

\* C10: the run ends with "All questions processed successfully!" only when
\* every call returned a response.
C10_SuccessOnlyWhenAllSucceeded ==
    (pc = "done" /\ status = AllProcessed) =>
        \A j \in 1..Len(returned) : returned[j] # PyNone

====
